---- MODULE Spec2Model ----
(***************************************************************************)
(* Model of the invite-based authentication back end: the SQLite tables of *)
(* database.js, the functions of auth.js, the routes and middleware of     *)
(* api.js, and the housekeeping sweep scheduled by server.js.              *)
(*                                                                         *)
(* Node runs every route handler, and every timer callback, to completion  *)
(* before it starts the next one, and every call the handlers make         *)
(* (better-sqlite3, bcrypt hashSync/compareSync) is synchronous: one       *)
(* handler is one atomic action.  Concurrent requests are requests handled *)
(* in any order.                                                           *)
(***************************************************************************)
EXTENDS Integers, Sequences, FiniteSets, Bags, TLC

(***************************************************************************)
(* Bounds of the model.                                                    *)
(***************************************************************************)
\* Session tokens the random source hands out in one behaviour.
MaxTokens == 2
\* Invite codes the random source hands out in one behaviour.
MaxCodes == 2
\* Clock advances in one behaviour.
MaxAdvances == 2
\* Rows of the logs table that direct calls of auth.js may fill.
MaxLogs == 4
\* Resolution of the clock: ticks per calendar day (UTC).
TicksPerDay == 2

(***************************************************************************)
(* Program constants.                                                      *)
(***************************************************************************)
\* expiration DATETIME DEFAULT (DATETIME(CURRENT_TIMESTAMP, '+7 days'))
InviteDays == 7
\* DATETIME(?, '-30 days') in clean_database
RetentionDays == 30
\* is_between_lengths(username, 1, 32)
MinUsernameLen == 1
MaxUsernameLen == 32
\* setInterval(clean_database, 24 * 60 * 60 * 1000): one day
CleanIntervalDays == 1

(***************************************************************************)
(* Values.  A username is the sequence of its characters; a password is a  *)
(* string; a token or an invite code is the index of the draw of the       *)
(* random source that produced it (0: the field is missing or empty).      *)
(***************************************************************************)
admin == <<"a", "d", "m", "i", "n">>
alice == <<"a", "l", "i", "c", "e">>
bob == <<"b", "o", "b">>
\* not alphanumeric
under == <<"a", "_">>
\* alphanumeric, one character too long
toolong == [i \in 1..(MaxUsernameLen + 1) |-> "a"]
\* missing or empty field
NoString == <<>>

Usernames == {admin, alice, bob}
\* what a request may carry as a username
UsernameInputs == Usernames \cup {NoString}
\* what a sign-up may carry as a username
SignUpUsernameInputs == Usernames \cup {under, toolong, NoString}
NoPassword == ""
Passwords == {"pw1", "pw2"}
PasswordInputs == Passwords \cup {NoPassword}
\* the passwords new users choose
SignUpPasswordInputs == {"pw1", NoPassword}
Tokens == 1..MaxTokens
\* a JSON value that is truthy and that SQLite cannot bind: true, an array,
\* an object
Unbindable == -1
\* what a request may carry as a token
TokenInputs == {Unbindable} \cup (0..MaxTokens)
Codes == 1..MaxCodes
CodeInputs == 0..MaxCodes

AlnumChars ==
    {"a", "b", "c", "d", "e", "f", "g", "h", "i", "j", "k", "l", "m",
     "n", "o", "p", "q", "r", "s", "t", "u", "v", "w", "x", "y", "z",
     "A", "B", "C", "D", "E", "F", "G", "H", "I", "J", "K", "L", "M",
     "N", "O", "P", "Q", "R", "S", "T", "U", "V", "W", "X", "Y", "Z",
     "0", "1", "2", "3", "4", "5", "6", "7", "8", "9"}

\* /^[a-z0-9]+$/i.test(string)
is_alphanumeric(string) ==
    /\ Len(string) >= 1
    /\ \A i \in 1..Len(string) : string[i] \in AlnumChars

\* string.length >= min && string.length <= max
is_between_lengths(string, min, max) ==
    Len(string) >= min /\ Len(string) <= max

(***************************************************************************)
(* Passwords.  hashSync(p, 12) is a bcrypt hash of p, and compareSync      *)
(* accepts exactly the password the hash was made of; the seeded literal   *)
(* 'DEFAULT PASSWORD HASH' is no bcrypt hash and matches no password.      *)
(***************************************************************************)
hashSync(password) == [alg |-> "bcrypt", of |-> password]
DefaultPasswordHash == [alg |-> "none", of |-> "DEFAULT PASSWORD HASH"]
compareSync(password, hash) == hash.alg = "bcrypt" /\ hash.of = password

(***************************************************************************)
(* Time.  The clock counts ticks; SQLite's CURRENT_TIMESTAMP and           *)
(* DATETIME() render a time as 'YYYY-MM-DD HH:MM:SS', JavaScript's         *)
(* toISOString() renders it as 'YYYY-MM-DDTHH:MM:SS.sssZ'.  A rendered     *)
(* time is <<date, separator, time of day>>; the separator is the eleventh *)
(* character, ' ' (0x20) or 'T' (0x54).  SQLite compares the TEXT values   *)
(* character by character.                                                 *)
(***************************************************************************)
Space == 32
LetterT == 84
SqlFormat(t) == <<t \div TicksPerDay, Space, t % TicksPerDay>>
toISOString(t) == <<t \div TicksPerDay, LetterT, t % TicksPerDay>>
\* SQLite's date parser accepts both separators.
ParseTime(s) == s[1] * TicksPerDay + s[3]
\* DATETIME(s, '+/-N days')
DATETIME(s, days) == SqlFormat(ParseTime(s) + days * TicksPerDay)
\* a < b on TEXT values (binary collation)
TextLess(a, b) ==
    \/ a[1] < b[1]
    \/ a[1] = b[1] /\ a[2] < b[2]
    \/ a[1] = b[1] /\ a[2] = b[2] /\ a[3] < b[3]

(***************************************************************************)
(* State.                                                                  *)
(***************************************************************************)
VARIABLES
    users,       \* table users: rows [username, password, is_admin]
    sessions,    \* table sessions: rows [auth_token, username, last_active]
    invites,     \* table invites: rows [invite_code, expiration]
    logs,        \* table logs: the bag of its rows [message, timestamp]
    next_token,  \* index of the next draw of randomBytes(32)
    next_code,   \* index of the next draw of randomBytes(3)
    now,         \* the clock, in ticks
    last_clean,  \* the time of the last clean_database run
    advances,    \* how often the clock has advanced
    redeemed_by, \* history: invite code -> the usernames of the successful
                 \* POST /signup requests that presented it
    ret,         \* outcome of the last direct call of a function of auth.js
                 \* or of open_database
    database_file \* database.db: whether the file exists, and how many of
                 \* the tables users, sessions, invites, logs (in the order
                 \* of create_tables) it has

vars == <<users, sessions, invites, logs, next_token, next_code, now,
          last_clean, advances, redeemed_by, ret, database_file>>

\* The database as one value, with the pending exception of the running
\* handler (err): a statement after a throw is not executed.
DB ==
    [users |-> users, sessions |-> sessions, invites |-> invites,
     logs |-> logs, err |-> FALSE]

\* The database after the step.
DBNext ==
    [users |-> users', sessions |-> sessions', invites |-> invites',
     logs |-> logs', err |-> FALSE]

(***************************************************************************)
(* database.js: the statements the program runs, one operator each.  A     *)
(* statement is atomic; it takes the database and yields the database      *)
(* after it, with err set when better-sqlite3 throws.                      *)
(***************************************************************************)
\* get_row('SELECT * FROM users WHERE username = ?'): the first match or null
UserRows(D, username) ==
    LET Match(r) == r.username = username IN SelectSeq(D.users, Match)

\* get_row('SELECT * FROM sessions WHERE auth_token = ?')
SessionRows(D, auth_token) ==
    LET Match(r) == r.auth_token = auth_token IN SelectSeq(D.sessions, Match)

\* get_row('SELECT * FROM invites WHERE invite_code = ?')
InviteRows(D, invite_code) ==
    LET Match(r) == r.invite_code = invite_code IN SelectSeq(D.invites, Match)

\* InsertUser with a fault seeded: the table has no primary key
InsertUser_no_key(D, username, password, is_admin) ==
    IF D.err THEN D
    ELSE [D EXCEPT !.users = Append(@,
             [username |-> username, password |-> password,
              is_admin |-> is_admin])]

\* INSERT INTO users: username is the PRIMARY KEY, a second row with the
\* same username is rejected (SQLITE_CONSTRAINT_PRIMARYKEY).
InsertUser(D, username, password, is_admin) ==
    IF D.err THEN D
    ELSE IF UserRows(D, username) /= <<>> THEN [D EXCEPT !.err = TRUE]
    ELSE [D EXCEPT !.users = Append(@,
             [username |-> username, password |-> password,
              is_admin |-> is_admin])]

\* DeleteUsers with a fault seeded: the foreign key does not cascade
DeleteUsers_no_cascade(D, username) ==
    IF D.err THEN D
    ELSE LET KeepUser(r) == r.username /= username
         IN  [D EXCEPT !.users = SelectSeq(@, KeepUser)]

\* DELETE FROM users WHERE username = ?; the sessions of the deleted user go
\* with it (FOREIGN KEY ... ON DELETE CASCADE; better-sqlite3 is built with
\* foreign keys enforced).
DeleteUsers(D, username) ==
    IF D.err THEN D
    ELSE LET KeepUser(r) == r.username /= username
             KeepSession(r) == r.username /= username
         IN  [D EXCEPT !.users = SelectSeq(@, KeepUser),
                       !.sessions = SelectSeq(@, KeepSession)]

\* InsertSession with a fault seeded: the foreign key is not enforced
InsertSession_no_fk(D, username, auth_token, t) ==
    IF D.err THEN D
    ELSE [D EXCEPT !.sessions = Append(@,
             [auth_token |-> auth_token, username |-> username,
              last_active |-> SqlFormat(t)])]

\* INSERT INTO sessions (username, auth_token): last_active defaults to
\* CURRENT_TIMESTAMP; a username that is no user fails the foreign key.
InsertSession(D, username, auth_token, t) ==
    IF D.err THEN D
    ELSE IF UserRows(D, username) = <<>> THEN [D EXCEPT !.err = TRUE]
    ELSE [D EXCEPT !.sessions = Append(@,
             [auth_token |-> auth_token, username |-> username,
              last_active |-> SqlFormat(t)])]

\* TouchSessions with a fault seeded: the UPDATE has no WHERE clause
TouchSessions_all(D, auth_token, t) ==
    IF D.err THEN D
    ELSE [D EXCEPT !.sessions =
             [i \in 1..Len(@) |-> [@[i] EXCEPT !.last_active = SqlFormat(t)]]]

\* UPDATE sessions SET last_active = CURRENT_TIMESTAMP WHERE auth_token = ?
TouchSessions(D, auth_token, t) ==
    IF D.err THEN D
    ELSE [D EXCEPT !.sessions =
             [i \in 1..Len(@) |->
                 IF @[i].auth_token = auth_token
                 THEN [@[i] EXCEPT !.last_active = SqlFormat(t)]
                 ELSE @[i]]]

\* DeleteSessions with a fault seeded: the statement matches no row
DeleteSessions_none(D, auth_token) == D

\* DELETE FROM sessions WHERE auth_token = ?
DeleteSessions(D, auth_token) ==
    IF D.err THEN D
    ELSE LET Keep(r) == r.auth_token /= auth_token
         IN  [D EXCEPT !.sessions = SelectSeq(@, Keep)]

\* INSERT INTO invites (invite_code): expiration defaults to
\* DATETIME(CURRENT_TIMESTAMP, '+7 days').
InsertInvite(D, invite_code, t) ==
    IF D.err THEN D
    ELSE [D EXCEPT !.invites = Append(@,
             [invite_code |-> invite_code,
              expiration |-> DATETIME(SqlFormat(t), InviteDays)])]

\* DeleteInvites with a fault seeded: the statement matches no row
DeleteInvites_none(D, invite_code) == D

\* DELETE FROM invites WHERE invite_code = ?
DeleteInvites(D, invite_code) ==
    IF D.err THEN D
    ELSE LET Keep(r) == r.invite_code /= invite_code
         IN  [D EXCEPT !.invites = SelectSeq(@, Keep)]

\* log(message): INSERT INTO logs (message); timestamp defaults to
\* CURRENT_TIMESTAMP.
log(D, message, t) ==
    IF D.err THEN D
    ELSE [D EXCEPT !.logs =
             @ (+) SetToBag({[message |-> message, timestamp |-> SqlFormat(t)]})]

\* DELETE FROM invites WHERE expiration < ?   (? is the ISO text)
EvictInvites(D, current_time) ==
    IF D.err THEN D
    ELSE LET Keep(r) == ~TextLess(r.expiration, current_time)
         IN  [D EXCEPT !.invites = SelectSeq(@, Keep)]

\* EvictSessions with a fault seeded: the '-30 days' modifier is missing
EvictSessions_no_window(D, current_time) ==
    IF D.err THEN D
    ELSE LET Keep(r) == ~TextLess(r.last_active, DATETIME(current_time, 0))
         IN  [D EXCEPT !.sessions = SelectSeq(@, Keep)]

\* DELETE FROM sessions WHERE last_active < DATETIME(?, '-30 days')
EvictSessions(D, current_time) ==
    IF D.err THEN D
    ELSE LET Keep(r) ==
                 ~TextLess(r.last_active, DATETIME(current_time, -RetentionDays))
         IN  [D EXCEPT !.sessions = SelectSeq(@, Keep)]

\* DELETE FROM logs WHERE timestamp < DATETIME(?, '-30 days')
EvictLogs(D, current_time) ==
    IF D.err THEN D
    ELSE LET Keep(r) ==
                 ~TextLess(r.timestamp, DATETIME(current_time, -RetentionDays))
         IN  [D EXCEPT !.logs = [r \in {x \in DOMAIN @ : Keep(x)} |-> @[r]]]

\* clean_database()
clean_database(D, t) ==
    LET current_time == toISOString(t)
    IN  EvictLogs(EvictSessions(EvictInvites(D, current_time), current_time),
                  current_time)

(***************************************************************************)
(* auth.js.  A function that reads yields [threw, value]; a function that  *)
(* writes yields the database after it (err set when it threw).            *)
(***************************************************************************)
Returned(value) == [threw |-> FALSE, value |-> value]
Threw == [threw |-> TRUE, value |-> FALSE]

check_username(D, username) == UserRows(D, username) /= <<>>

\* user_info is null for an unknown username, and user_info.password throws
check_password(D, username, password) ==
    LET user_info == UserRows(D, username)
    IN  IF user_info = <<>> THEN Threw
        ELSE Returned(compareSync(password, user_info[1].password))

\* get_row(...).username throws on null
get_username(D, auth_token) ==
    LET row == SessionRows(D, auth_token)
    IN  IF row = <<>> THEN Threw ELSE Returned(row[1].username)

\* get_row(...).is_admin == 1 throws on null
check_admin(D, username) ==
    LET row == UserRows(D, username)
    IN  IF row = <<>> THEN Threw ELSE Returned(row[1].is_admin = 1)

check_invite_code(D, invite_code) == InviteRows(D, invite_code) /= <<>>

\* create_user with a fault seeded: the invite is not deleted
create_user_keeps_invite(D, username, password, invite_code, t) ==
    log(InsertUser(D, username, hashSync(password), 0),
        <<"Created new user", username, invite_code>>, t)

\* create_user with a fault seeded: the new user is inserted with is_admin 1
create_user_as_admin(D, username, password, invite_code, t) ==
    log(InsertUser(DeleteInvites(D, invite_code),
                   username, hashSync(password), 1),
        <<"Created new user", username, invite_code>>, t)

create_user(D, username, password, invite_code, t) ==
    log(InsertUser(DeleteInvites(D, invite_code),
                   username, hashSync(password), 0),
        <<"Created new user", username, invite_code>>, t)

delete_user(D, username, t) ==
    log(DeleteUsers(D, username), <<"Deleted user", username>>, t)

\* auth_token is the token drawn; the caller returns it when err is unset
create_session(D, username, auth_token, t) ==
    log(InsertSession(D, username, auth_token, t),
        <<"Created new session", username>>, t)

\* the username, or null (NoString)
check_session_value(D, auth_token) ==
    LET session_info == SessionRows(D, auth_token)
    IN  IF session_info /= <<>> THEN session_info[1].username ELSE NoString

check_session(D, auth_token, t) ==
    IF SessionRows(D, auth_token) /= <<>>
    THEN TouchSessions(D, auth_token, t)
    ELSE D

delete_session(D, auth_token, t) ==
    LET username == get_username(D, auth_token)
    IN  IF username.threw THEN [D EXCEPT !.err = TRUE]
        ELSE log(DeleteSessions(D, auth_token),
                 <<"Deleted session", username.value>>, t)

create_invite_code(D, invite_code, t) ==
    log(InsertInvite(D, invite_code, t),
        <<"Created new invite code", invite_code>>, t)

(***************************************************************************)
(* api.js.  A route yields the database after the request, the response    *)
(* (status, message, data) and whether it drew from the random source.     *)
(* Every route body, and each middleware, is wrapped in try/catch: a throw *)
(* becomes the 500 response, and what was written before it stays.         *)
(***************************************************************************)
Outcome(D, status, message, data, drew) ==
    [db |-> D, status |-> status, message |-> message, data |-> data,
     drew |-> drew]

\* no data in the response
NoData == 0

invalid_request_error(D) == Outcome(D, 400, "Invalid request format.", NoData, FALSE)
server_error(D) == Outcome(D, 500, "Internal server error.", NoData, FALSE)

\* the auth middleware: the response that ends the request, or next()
\* (status 0) with req.auth.username in data
auth(D, auth_token, t) ==
    IF auth_token = 0 THEN invalid_request_error(D)
    \* check_session throws when the statement binds its parameter
    ELSE IF auth_token = Unbindable THEN server_error(D)
    ELSE LET username == check_session_value(D, auth_token)
             D1 == check_session(D, auth_token, t)
         IN  IF username = NoString
             THEN Outcome(D1, 401, "Invalid authentication token.", NoData, FALSE)
             ELSE Outcome(D1, 0, "next", username, FALSE)

\* admin with a fault seeded: the middleware lets every user pass
admin_mw_open(A) == A

\* the admin middleware, after auth passed A
admin_mw(A) ==
    IF A.status /= 0 THEN A
    ELSE LET is_admin == check_admin(A.db, A.data)
         IN  IF is_admin.threw THEN server_error(A.db)
             ELSE IF ~is_admin.value
             THEN Outcome(A.db, 403, "Insufficient permissions.", NoData, FALSE)
             ELSE A

\* POST /signin
signin(D, username, password, auth_token, t) ==
    IF username = NoString \/ password = NoPassword
    THEN invalid_request_error(D)
    ELSE IF ~check_username(D, username)
    THEN Outcome(D, 404, "Username does not exist.", NoData, FALSE)
    ELSE LET ok == check_password(D, username, password)
         IN  IF ok.threw THEN server_error(D)
             ELSE IF ~ok.value
             THEN Outcome(D, 401, "Incorrect password.", NoData, FALSE)
             ELSE LET D1 == create_session(D, username, auth_token, t)
                  IN  IF D1.err THEN [server_error(D1) EXCEPT !.drew = TRUE]
                      ELSE Outcome(D1, 200, "Signed in successfully.",
                                   auth_token, TRUE)

\* POST /signup
signup(D, username, password, invite_code, auth_token, t) ==
    IF username = NoString \/ password = NoPassword \/ invite_code = 0
    THEN invalid_request_error(D)
    ELSE IF \/ ~is_alphanumeric(username)
            \/ ~is_between_lengths(username, MinUsernameLen, MaxUsernameLen)
    THEN Outcome(D, 400,
             "Username must be alphanumeric with a maximum length of 32 characters.",
             NoData, FALSE)
    ELSE IF check_username(D, username)
    THEN Outcome(D, 400, "Username already exists.", NoData, FALSE)
    ELSE IF ~check_invite_code(D, invite_code)
    THEN Outcome(D, 400, "Invalid invite code.", NoData, FALSE)
    ELSE LET D1 == create_user(D, username, password, invite_code, t)
             D2 == create_session(D1, username, auth_token, t)
         IN  IF D1.err THEN server_error(D1)
             ELSE IF D2.err THEN [server_error(D2) EXCEPT !.drew = TRUE]
             ELSE Outcome(D2, 200, "Signed up successfully.", auth_token, TRUE)

\* POST /signout (auth, then the route)
signout(D, auth_token, t) ==
    LET A == auth(D, auth_token, t)
    IN  IF A.status /= 0 THEN A
        ELSE LET D1 == delete_session(A.db, auth_token, t)
             IN  IF D1.err THEN server_error(D1)
                 ELSE Outcome(D1, 200, "Signed out successfully.", NoData, FALSE)

\* POST /create-invite-code (auth, admin, then the route)
create_invite(D, auth_token, invite_code, t) ==
    LET A == admin_mw(auth(D, auth_token, t))
    IN  IF A.status /= 0 THEN A
        ELSE LET D1 == create_invite_code(A.db, invite_code, t)
             IN  IF D1.err THEN [server_error(D1) EXCEPT !.drew = TRUE]
                 ELSE Outcome(D1, 200, "Created invite code successfully.",
                              invite_code, TRUE)

\* POST /delete-user with a fault seeded: the target is not compared with
\* 'admin'
delete_user_route_any(D, auth_token, username, t) ==
    LET A == admin_mw(auth(D, auth_token, t))
    IN  IF A.status /= 0 THEN A
        ELSE IF username = NoString THEN invalid_request_error(A.db)
        ELSE IF ~check_username(A.db, username)
        THEN Outcome(A.db, 404, "User does not exist.", NoData, FALSE)
        ELSE LET D1 == delete_user(A.db, username, t)
             IN  IF D1.err THEN server_error(D1)
                 ELSE Outcome(D1, 200, "Deleted user successfully.", NoData, FALSE)

\* POST /delete-user (auth, admin, then the route)
delete_user_route(D, auth_token, username, t) ==
    LET A == admin_mw(auth(D, auth_token, t))
    IN  IF A.status /= 0 THEN A
        ELSE IF username = NoString THEN invalid_request_error(A.db)
        ELSE IF username = admin
        THEN Outcome(A.db, 403, "Cannot delete admin account.", NoData, FALSE)
        ELSE IF ~check_username(A.db, username)
        THEN Outcome(A.db, 404, "User does not exist.", NoData, FALSE)
        ELSE LET D1 == delete_user(A.db, username, t)
             IN  IF D1.err THEN server_error(D1)
                 ELSE Outcome(D1, 200, "Deleted user successfully.", NoData, FALSE)

(***************************************************************************)
(* The state machine.                                                      *)
(***************************************************************************)
\* The state when the server starts to serve: open_database() created the
\* tables and the admin account, clean_database() ran on the empty tables.
\* The operator either left the placeholder hash in place or replaced it
\* with the hash of a password, as the README asks.
AdminPassword == "pw2"

\* the tables create_tables creates: users, sessions, invites, logs
TableCount == 4

Init ==
    /\ \E hash \in {DefaultPasswordHash, hashSync(AdminPassword)} :
           users = <<[username |-> admin, password |-> hash, is_admin |-> 1]>>
    /\ sessions = <<>>
    /\ invites = <<>>
    /\ logs = EmptyBag
    /\ next_token = 1
    /\ next_code = 1
    /\ now = 0
    /\ last_clean = 0
    /\ advances = 0
    /\ redeemed_by = [c \in Codes |-> {}]
    /\ ret = [fn |-> "none", threw |-> FALSE, value |-> FALSE]
    /\ database_file = [exists |-> TRUE, tables |-> TableCount]

\* The database after an operation.
Store(D) ==
    /\ users' = D.users
    /\ sessions' = D.sessions
    /\ invites' = D.invites
    /\ logs' = D.logs

SignIn(username, password) ==
    LET O == signin(DB, username, password, next_token, now)
    IN  /\ O.drew => next_token <= MaxTokens
        /\ Store(O.db)
        /\ next_token' = IF O.drew THEN next_token + 1 ELSE next_token
        /\ UNCHANGED <<database_file, next_code, now, last_clean, advances,
                       redeemed_by, ret>>

SignUp(username, password, invite_code) ==
    LET O == signup(DB, username, password, invite_code, next_token, now)
    IN  /\ O.drew => next_token <= MaxTokens
        /\ Store(O.db)
        /\ next_token' = IF O.drew THEN next_token + 1 ELSE next_token
        /\ redeemed_by' =
               IF O.status = 200
               THEN [redeemed_by EXCEPT ![invite_code] = @ \cup {username}]
               ELSE redeemed_by
        /\ UNCHANGED <<database_file, next_code, now, last_clean, advances,
                       ret>>

SignOut(auth_token) ==
    LET O == signout(DB, auth_token, now)
    IN  /\ Store(O.db)
        /\ UNCHANGED <<database_file, next_token, next_code, now, last_clean,
                       advances, redeemed_by, ret>>

CreateInviteCode(auth_token) ==
    LET O == create_invite(DB, auth_token, next_code, now)
    IN  /\ O.drew => next_code <= MaxCodes
        /\ Store(O.db)
        /\ next_code' = IF O.drew THEN next_code + 1 ELSE next_code
        /\ UNCHANGED <<database_file, next_token, now, last_clean, advances,
                       redeemed_by, ret>>

DeleteUser(auth_token, username) ==
    LET O == delete_user_route(DB, auth_token, username, now)
    IN  /\ Store(O.db)
        /\ UNCHANGED <<database_file, next_token, next_code, now, last_clean,
                       advances, redeemed_by, ret>>

\* The server starts again: the listen callback runs clean_database() and
\* sets the interval timer anew.
Restart ==
    /\ Store(clean_database(DB, now))
    /\ last_clean' = now
    /\ UNCHANGED <<database_file, next_token, next_code, now, advances,
                   redeemed_by, ret>>

\* The interval timer fires: clean_database(), one day after the last run.
CleanInterval == CleanIntervalDays * TicksPerDay

TimerFires ==
    /\ now = last_clean + CleanInterval
    /\ Store(clean_database(DB, now))
    /\ last_clean' = now
    /\ UNCHANGED <<database_file, next_token, next_code, now, advances,
                   redeemed_by, ret>>

\* The last firing of the interval timer before time t.
LastFiringBefore(t) ==
    last_clean + ((t - 1 - last_clean) \div CleanInterval) * CleanInterval

\* Time passes, d ticks; the timer's runs that are due before the new time
\* happen on the way.  No request is served in between, so the last of them
\* leaves what they all leave.
AdvanceSteps ==
    {1, InviteDays * TicksPerDay, RetentionDays * TicksPerDay}

Advance(d) ==
    LET fired == LastFiringBefore(now + d)
    IN  /\ advances < MaxAdvances
        /\ now' = now + d
        /\ advances' = advances + 1
        /\ IF fired > last_clean
           THEN Store(clean_database(DB, fired)) /\ last_clean' = fired
           ELSE UNCHANGED <<users, sessions, invites, logs, last_clean>>
        /\ UNCHANGED <<database_file, next_token, next_code, redeemed_by,
                       ret>>

Next ==
    \/ \E u \in UsernameInputs, p \in PasswordInputs : SignIn(u, p)
    \/ \E u \in SignUpUsernameInputs, p \in SignUpPasswordInputs, c \in CodeInputs :
           SignUp(u, p, c)
    \/ \E t \in TokenInputs : SignOut(t)
    \/ \E t \in TokenInputs : CreateInviteCode(t)
    \/ \E t \in TokenInputs, u \in UsernameInputs : DeleteUser(t, u)
    \/ Restart
    \/ TimerFires
    \/ \E d \in AdvanceSteps : Advance(d)

Spec == Init /\ [][Next]_vars

(***************************************************************************)
(* auth.js as a library: its exported functions called directly, in any    *)
(* order and with any arguments, by a caller that makes no check of its    *)
(* own.  The calls are made at one instant: the clock stands.              *)
(***************************************************************************)
Return(fn, threw, value) ==
    ret' = [fn |-> fn, threw |-> threw, value |-> value]

\* The direct calls that write fill at most MaxLogs rows of the logs table.
LogRoom == BagCardinality(logs) < MaxLogs

CallCheckPassword(username, password) ==
    LET r == check_password(DB, username, password)
    IN  /\ Return("check_password", r.threw, r.value)
        /\ UNCHANGED <<database_file, users, sessions, invites, logs,
                       next_token, next_code, now, last_clean, advances,
                       redeemed_by>>

CallCreateUser(username, password, invite_code) ==
    LET D == create_user(DB, username, password, invite_code, now)
    IN  /\ LogRoom
        /\ Store(D)
        /\ Return("create_user", D.err, FALSE)
        /\ UNCHANGED <<database_file, next_token, next_code, now, last_clean,
                       advances, redeemed_by>>

CallDeleteUser(username) ==
    LET D == delete_user(DB, username, now)
    IN  /\ LogRoom
        /\ Store(D)
        /\ Return("delete_user", D.err, FALSE)
        /\ UNCHANGED <<database_file, next_token, next_code, now, last_clean,
                       advances, redeemed_by>>

CallCreateSession(username) ==
    LET D == create_session(DB, username, next_token, now)
    IN  /\ LogRoom
        /\ next_token <= MaxTokens
        /\ Store(D)
        /\ next_token' = next_token + 1
        /\ Return("create_session", D.err, FALSE)
        /\ UNCHANGED <<database_file, next_code, now, last_clean, advances,
                       redeemed_by>>

CallCheckSession(auth_token) ==
    LET D == check_session(DB, auth_token, now)
    IN  /\ Store(D)
        /\ Return("check_session", D.err,
                  check_session_value(DB, auth_token) /= NoString)
        /\ UNCHANGED <<database_file, next_token, next_code, now, last_clean,
                       advances, redeemed_by>>

CallDeleteSession(auth_token) ==
    LET D == delete_session(DB, auth_token, now)
    IN  /\ LogRoom
        /\ Store(D)
        /\ Return("delete_session", D.err, FALSE)
        /\ UNCHANGED <<database_file, next_token, next_code, now, last_clean,
                       advances, redeemed_by>>

CallCreateInviteCode ==
    LET D == create_invite_code(DB, next_code, now)
    IN  /\ LogRoom
        /\ next_code <= MaxCodes
        /\ Store(D)
        /\ next_code' = next_code + 1
        /\ Return("create_invite_code", D.err, FALSE)
        /\ UNCHANGED <<database_file, next_token, now, last_clean, advances,
                       redeemed_by>>

NextCore ==
    \/ \E u \in Usernames, p \in Passwords : CallCheckPassword(u, p)
    \/ \E u \in Usernames, p \in Passwords, c \in Codes :
           CallCreateUser(u, p, c)
    \/ \E u \in Usernames : CallDeleteUser(u)
    \/ \E u \in Usernames : CallCreateSession(u)
    \/ \E t \in Tokens : CallCheckSession(t)
    \/ \E t \in Tokens : CallDeleteSession(t)
    \/ CallCreateInviteCode

SpecCore == Init /\ [][NextCore]_vars

(***************************************************************************)
(* The server with a persistence layer that can fail.  A statement of      *)
(* clean_database can throw (the file is locked by another process, the    *)
(* disk is full, an I/O error): execute() lets the exception through,      *)
(* clean_database() has no try/catch, and neither has the listen callback  *)
(* or the timer callback that called it, so the statements after the       *)
(* failing one do not run and the uncaught exception ends the process.     *)
(* The database file stays as the statements before the failing one left   *)
(* it, until the server is started again.                                  *)
(***************************************************************************)
\* db.prepare(query).run(params) throws
Throws(D) == [D EXCEPT !.err = TRUE]

\* The statements of clean_database.
CleanStatements == 1..3

\* clean_database() when its statement number failing throws
clean_database_failing(D, t, failing) ==
    LET current_time == toISOString(t)
        D1 == IF failing = 1 THEN Throws(D) ELSE EvictInvites(D, current_time)
        D2 == IF failing = 2 THEN Throws(D1) ELSE EvictSessions(D1, current_time)
        D3 == IF failing = 3 THEN Throws(D2) ELSE EvictLogs(D2, current_time)
    IN  D3

\* last_clean when the process has ended: no timer is set
Down == -1
Up == last_clean /= Down

\* The statements POST /signup runs after its checks: the DELETE, the INSERT
\* and the log of create_user, the INSERT and the log of create_session.
SignUpStatements == 1..5

\* create_user() when statement number failing throws
create_user_failing(D, username, password, invite_code, t, failing) ==
    LET D1 == IF failing = 1 THEN Throws(D) ELSE DeleteInvites(D, invite_code)
        D2 == IF failing = 2 THEN Throws(D1)
              ELSE InsertUser(D1, username, hashSync(password), 0)
        D3 == IF failing = 3 THEN Throws(D2)
              ELSE log(D2, <<"Created new user", username, invite_code>>, t)
    IN  D3

\* create_session() when statement number failing throws
create_session_failing(D, username, auth_token, t, failing) ==
    LET D1 == IF failing = 4 THEN Throws(D)
              ELSE InsertSession(D, username, auth_token, t)
        D2 == IF failing = 5 THEN Throws(D1)
              ELSE log(D1, <<"Created new session", username>>, t)
    IN  D2

\* POST /signup when statement number failing throws (0: none does)
signup_failing(D, username, password, invite_code, auth_token, t, failing) ==
    IF username = NoString \/ password = NoPassword \/ invite_code = 0
    THEN invalid_request_error(D)
    ELSE IF \/ ~is_alphanumeric(username)
            \/ ~is_between_lengths(username, MinUsernameLen, MaxUsernameLen)
    THEN Outcome(D, 400,
             "Username must be alphanumeric with a maximum length of 32 characters.",
             NoData, FALSE)
    ELSE IF check_username(D, username)
    THEN Outcome(D, 400, "Username already exists.", NoData, FALSE)
    ELSE IF ~check_invite_code(D, invite_code)
    THEN Outcome(D, 400, "Invalid invite code.", NoData, FALSE)
    ELSE LET D1 == create_user_failing(D, username, password, invite_code, t,
                                       failing)
             D2 == create_session_failing(D1, username, auth_token, t, failing)
         IN  IF D1.err THEN server_error(D1)
             ELSE IF D2.err THEN [server_error(D2) EXCEPT !.drew = TRUE]
             ELSE Outcome(D2, 200, "Signed up successfully.", auth_token, TRUE)

\* POST /signup is served and one of its statements throws: the catch of the
\* route answers 500, what the statements before it wrote stays.
SignUpFails(username, password, invite_code, failing) ==
    LET O == signup_failing(DB, username, password, invite_code, next_token,
                            now, failing)
    IN  /\ Up
        /\ O.status = 500
        /\ O.drew => next_token <= MaxTokens
        /\ Store(O.db)
        /\ next_token' = IF O.drew THEN next_token + 1 ELSE next_token
        /\ UNCHANGED <<database_file, next_code, now, last_clean, advances,
                       redeemed_by, ret>>

\* clean_database() runs, in the listen callback of a server that starts or
\* in the timer callback when the timer is due, and one of its statements
\* throws.
SweepFails(failing) ==
    /\ Up => now = last_clean + CleanInterval
    /\ Store(clean_database_failing(DB, now, failing))
    /\ last_clean' = Down
    /\ UNCHANGED <<database_file, next_token, next_code, now, advances,
                   redeemed_by, ret>>

\* Time passes while the server is down.
AdvanceDown(d) ==
    /\ ~Up
    /\ advances < MaxAdvances
    /\ now' = now + d
    /\ advances' = advances + 1
    /\ UNCHANGED <<database_file, users, sessions, invites, logs, last_clean,
                   next_token, next_code, redeemed_by, ret>>

\* The requests are served, the timer runs and the clock of the timer's
\* runs advances while the process is up; the server can be started at any
\* time.
NextFailing ==
    \/ \E u \in UsernameInputs, p \in PasswordInputs : Up /\ SignIn(u, p)
    \/ \E u \in SignUpUsernameInputs, p \in SignUpPasswordInputs, c \in CodeInputs :
           Up /\ SignUp(u, p, c)
    \/ \E t \in TokenInputs : Up /\ SignOut(t)
    \/ \E t \in TokenInputs : Up /\ CreateInviteCode(t)
    \/ \E t \in TokenInputs, u \in UsernameInputs : Up /\ DeleteUser(t, u)
    \/ Restart
    \/ Up /\ TimerFires
    \/ \E d \in AdvanceSteps : Up /\ Advance(d)
    \/ \E failing \in CleanStatements : SweepFails(failing)
    \/ \E d \in AdvanceSteps : AdvanceDown(d)

SpecFailing == Init /\ [][NextFailing]_vars

\* The requests served at one instant, with sign-ups whose statements can
\* throw.
NextSignUpFailing ==
    \/ \E u \in UsernameInputs, p \in PasswordInputs : SignIn(u, p)
    \/ \E u \in SignUpUsernameInputs, p \in SignUpPasswordInputs, c \in CodeInputs :
           SignUp(u, p, c)
    \/ \E t \in TokenInputs : SignOut(t)
    \/ \E t \in TokenInputs : CreateInviteCode(t)
    \/ \E t \in TokenInputs, u \in UsernameInputs : DeleteUser(t, u)
    \/ \E u \in Usernames, p \in SignUpPasswordInputs, c \in Codes,
          failing \in SignUpStatements : SignUpFails(u, p, c, failing)

SpecSignUpFailing == Init /\ [][NextSignUpFailing]_vars

(***************************************************************************)
(* The server from its first start.  open_database() provisions the file   *)
(* only when fs.existsSync(database_path) is false: new Database() creates *)
(* the file, create_tables() runs its four CREATE TABLE statements (each   *)
(* commits on its own), create_admin_account() inserts the row of 'admin'. *)
(* A statement that throws makes open_database() return false and the      *)
(* server exit; the process can also be ended between two statements.  The *)
(* file stays as the statements that completed left it.                    *)
(***************************************************************************)
\* the statements of create_tables and create_admin_account
ProvisionSteps == TableCount + 1

\* open_database() on the file, when done of the provisioning statements
\* complete before one throws or the process ends (ProvisionSteps: all
\* complete): the file and the users table after it, and whether it
\* returned true
open_database(file, rows, hash, done) ==
    IF ~file.exists
    THEN [file |-> [exists |-> TRUE,
                    tables |-> IF done < TableCount THEN done ELSE TableCount],
          users |-> IF done = ProvisionSteps
                    THEN <<[username |-> admin, password |-> hash,
                            is_admin |-> 1]>>
                    ELSE <<>>,
          value |-> done = ProvisionSteps]
    ELSE [file |-> file, users |-> rows, value |-> TRUE]

InitBoot ==
    /\ database_file = [exists |-> FALSE, tables |-> 0]
    /\ users = <<>>
    /\ sessions = <<>>
    /\ invites = <<>>
    /\ logs = EmptyBag
    /\ next_token = 1
    /\ next_code = 1
    /\ now = 0
    /\ last_clean = Down
    /\ advances = 0
    /\ redeemed_by = [c \in Codes |-> {}]
    /\ ret = [fn |-> "none", threw |-> FALSE, value |-> FALSE]

\* The server is started: the listen callback calls open_database(), exits
\* when it returns false, and otherwise runs clean_database(), which throws
\* when a table is missing ('no such table', uncaught: the process ends).
StartServer(hash, done) ==
    LET opened == open_database(database_file, users, hash, done)
        D == [DB EXCEPT !.users = opened.users]
        serves == opened.value /\ opened.file.tables = TableCount
    IN  /\ ~Up
        /\ database_file.exists => done = ProvisionSteps
        /\ database_file' = opened.file
        /\ ret' = [fn |-> "open_database", threw |-> FALSE,
                   value |-> opened.value]
        /\ Store(IF serves THEN clean_database(D, now) ELSE D)
        /\ last_clean' = IF serves THEN now ELSE Down
        /\ UNCHANGED <<next_token, next_code, now, advances, redeemed_by>>

\* The server is stopped.
StopServer ==
    /\ Up
    /\ last_clean' = Down
    /\ UNCHANGED <<database_file, users, sessions, invites, logs, next_token,
                   next_code, now, advances, redeemed_by, ret>>

NextBoot ==
    \/ \E hash \in {DefaultPasswordHash, hashSync(AdminPassword)},
          done \in 0..ProvisionSteps : StartServer(hash, done)
    \/ StopServer
    \/ \E u \in UsernameInputs, p \in PasswordInputs : Up /\ SignIn(u, p)
    \/ \E u \in SignUpUsernameInputs, p \in SignUpPasswordInputs, c \in CodeInputs :
           Up /\ SignUp(u, p, c)
    \/ \E t \in TokenInputs : Up /\ SignOut(t)
    \/ \E t \in TokenInputs : Up /\ CreateInviteCode(t)
    \/ \E t \in TokenInputs, u \in UsernameInputs : Up /\ DeleteUser(t, u)

SpecBoot == InitBoot /\ [][NextBoot]_vars

(***************************************************************************)
(* Properties.                                                             *)
(***************************************************************************)
\* A sign-up for (username, password) passes every check but the invite's.
Eligible(D, username, password) ==
    /\ username /= NoString
    /\ password /= NoPassword
    /\ is_alphanumeric(username)
    /\ is_between_lengths(username, MinUsernameLen, MaxUsernameLen)
    /\ ~check_username(D, username)

\* The time a rendered time stands for.
TimeOf(s) == ParseTime(s)

\* C1: an invite code is single-use.  Right after POST /create-invite-code
\* returned it, check_invite_code accepts it; right after a successful
\* sign-up presented it, check_invite_code refuses it; and in every state
\* after a successful sign-up presented it, check_invite_code refuses it and
\* every sign-up presenting it answers 400 and changes nothing, with
\* 'Invalid invite code.' whenever the request passes the username checks.
InviteSingleUse ==
    [][\/ vars' = vars
       \/ \A c \in Codes :
           /\ (/\ next_code' /= next_code
               /\ c = next_code
               /\ \E t \in TokenInputs :
                      /\ CreateInviteCode(t)
                      /\ create_invite(DB, t, c, now).status = 200)
              => check_invite_code(DBNext, c)
           /\ (/\ redeemed_by'[c] /= redeemed_by[c]
               /\ \E u \in SignUpUsernameInputs, p \in SignUpPasswordInputs :
                      /\ SignUp(u, p, c)
                      /\ signup(DB, u, p, c, next_token, now).status = 200)
              => ~check_invite_code(DBNext, c)
           /\ redeemed_by'[c] /= {}
              => /\ ~check_invite_code(DBNext, c)
                 /\ \A u \in SignUpUsernameInputs, p \in PasswordInputs :
                       LET O == signup(DBNext, u, p, c, next_token', now')
                       IN  /\ O.status = 400
                           /\ O.db = DBNext
                           /\ Eligible(DBNext, u, p)
                              => O.message = "Invalid invite code."
      ]_vars

\* C1, witness: a code was issued and redeemed, and the user it admitted is
\* there.
CodeRedeemed ==
    \E c \in Codes :
        /\ redeemed_by[c] /= {}
        /\ ~check_invite_code(DB, c)
        /\ \E u \in redeemed_by[c] : check_username(DB, u)

\* An invite row whose expiration is earlier than the current time.
ExpiredRow(r) == TimeOf(r.expiration) < now

\* C2: an expired invite never authorizes registration.  For every code
\* whose stored expiration is earlier than the current time,
\* check_invite_code is false and no sign-up presenting it succeeds.
ExpiredInviteNeverAuthorizes ==
    \A i \in 1..Len(invites) :
        ExpiredRow(invites[i])
        => /\ ~check_invite_code(DB, invites[i].invite_code)
           /\ \A u \in SignUpUsernameInputs, p \in PasswordInputs :
                  signup(DB, u, p, invites[i].invite_code, next_token, now).status
                      /= 200

\* C3: of the sign-ups that present one invite code with well-formed, unused
\* usernames, handled in any order, exactly one succeeds.  In every state:
\* at most one sign-up ever succeeded with the code; while the code is in
\* the table the next such sign-up succeeds and creates its user; once one
\* has succeeded every other one answers 400 and changes nothing.
ExactlyOneRedemption ==
    \A c \in Codes :
        /\ Cardinality(redeemed_by[c]) <= 1
        /\ \A u \in Usernames, p \in Passwords :
               Eligible(DB, u, p)
               => LET O == signup(DB, u, p, c, next_token, now)
                  IN  /\ check_invite_code(DB, c)
                         => /\ O.status = 200
                            /\ O.data = next_token
                            /\ check_username(O.db, u)
                            /\ ~check_invite_code(O.db, c)
                      /\ redeemed_by[c] /= {}
                         => /\ O.status = 400
                            /\ O.db = DB

\* C3, witness: one sign-up succeeded with the code, and another user's
\* sign-up with the same code is refused.
SecondRedemptionRefused ==
    \E c \in Codes, u \in Usernames :
        /\ redeemed_by[c] /= {}
        /\ Eligible(DB, u, "pw1")
        /\ signup(DB, u, "pw1", c, next_token, now).message
               = "Invalid invite code."

\* C4: no two rows of the users table share a username, whatever the order
\* in which the functions of auth.js run; create_user is called with no
\* check before it, as by a sign-up whose check_username ran before another
\* sign-up inserted the same username.
UsernameUnique ==
    \A i, j \in 1..Len(users) :
        i /= j => users[i].username /= users[j].username

\* C4, witness: create_user ran for a username that was taken, the insert
\* was refused and the username has one row.
DuplicateInsertRefused ==
    /\ ret.fn = "create_user"
    /\ ret.threw
    /\ \E u \in Usernames : Len(UserRows(DB, u)) = 1

\* validate(t): the username check_session returns, NoString for null
validate(D, auth_token) == check_session_value(D, auth_token)

\* C5: user deletion cascades.  When POST /delete-user answers 200 for u,
\* check_username(u) is false after it and check_session finds none of the
\* tokens of u; and a token that was handed out and is not in the table is
\* not in the table after any step, so they stay unresolvable.
DeleteUserCascades ==
    [][\/ vars' = vars
       \/ /\ \A u \in Usernames :
                (/\ logs' /= logs
                 /\ \E t \in Tokens :
                        /\ DeleteUser(t, u)
                        /\ delete_user_route(DB, t, u, now).status = 200)
                => /\ ~check_username(DBNext, u)
                   /\ \A i \in 1..Len(sessions) :
                          sessions[i].username = u
                          => validate(DBNext, sessions[i].auth_token) = NoString
          /\ \A t \in Tokens :
                (t < next_token /\ validate(DB, t) = NoString)
                => validate(DBNext, t) = NoString
      ]_vars

\* C5, witness: a user who had a session was deleted; the user and the
\* session are gone.
UserDeletedSessionsGone ==
    \E u \in Usernames :
        /\ \E r \in BagToSet(logs) : r.message = <<"Deleted user", u>>
        /\ \E r \in BagToSet(logs) : r.message = <<"Created new session", u>>
        /\ ~check_username(DB, u)
        /\ \A i \in 1..Len(sessions) : sessions[i].username /= u

\* A session row that has been inactive for more than 30 days at time t.
Stale(r, t) == TimeOf(r.last_active) + RetentionDays * TicksPerDay < t

\* The step hands out a token to username, which check_session resolves.
CreatesSessionFor(username) ==
    /\ \/ \E p \in Passwords :
              /\ SignIn(username, p)
              /\ signin(DB, username, p, next_token, now).status = 200
       \/ \E p \in Passwords, c \in Codes :
              /\ SignUp(username, p, c)
              /\ signup(DB, username, p, c, next_token, now).status = 200
    /\ validate(DBNext, next_token) = username

\* C6 as claimed: a token returned by create_session resolves to its user
\* right after creation, and a session in the table resolves to its user
\* after every step, unless the step is the sign-out of its token or the
\* session has been inactive for more than 30 days.
SessionValidUntilDestroyedOrStale ==
    [][\/ vars' = vars
       \/ /\ next_token' /= next_token
             => \E u \in Usernames : CreatesSessionFor(u)
          /\ \A i \in 1..Len(sessions) :
                \/ validate(DBNext, sessions[i].auth_token) = sessions[i].username
                \/ SignOut(sessions[i].auth_token)
                \/ Stale(sessions[i], now')
      ]_vars

\* C6, amended: ... unless the step is the sign-out of its token, the
\* session has been inactive for more than 30 days, or the step deletes the
\* session's user.
SessionValidUntilDestroyedDeletedOrStale ==
    [][\/ vars' = vars
       \/ /\ next_token' /= next_token
             => \E u \in Usernames : CreatesSessionFor(u)
          /\ \A i \in 1..Len(sessions) :
                \/ validate(DBNext, sessions[i].auth_token) = sessions[i].username
                \/ SignOut(sessions[i].auth_token)
                \/ Stale(sessions[i], now')
                \/ ~check_username(DBNext, sessions[i].username)
      ]_vars

\* C6, witness: a session inactive for exactly 30 days is in the table after
\* a sweep that ran later than its last use.
SessionKeptThirtyDays ==
    \E i \in 1..Len(sessions) :
        /\ TimeOf(sessions[i].last_active) + RetentionDays * TicksPerDay <= now
        /\ last_clean > TimeOf(sessions[i].last_active)
        /\ validate(DB, sessions[i].auth_token) = sessions[i].username

\* C7: sign-out invalidates the token.  When POST /signout answers 200 for
\* t, check_session does not find t after it; and a token that check_session
\* does not find is found after a step only if the step is a sign-in or a
\* sign-up that drew it as a new token.
SignOutInvalidates ==
    [][\/ vars' = vars
       \/ /\ \A t \in Tokens :
                (/\ logs' /= logs
                 /\ SignOut(t)
                 /\ signout(DB, t, now).status = 200)
                => validate(DBNext, t) = NoString
          /\ \A t \in Tokens :
                (validate(DB, t) = NoString /\ validate(DBNext, t) /= NoString)
                => /\ t = next_token
                   /\ next_token' = next_token + 1
                   /\ CreatesSessionFor(validate(DBNext, t))
      ]_vars

\* C7, witness: a session was signed out and its token is not found.
SignedOutTokenGone ==
    \E t \in Tokens :
        /\ t < next_token
        /\ validate(DB, t) = NoString
        /\ \E r \in BagToSet(logs) : r.message[1] = "Deleted session"
        /\ \A r \in BagToSet(logs) : r.message[1] /= "Deleted user"
        /\ now = 0

\* clean_database as claimed, run at time t: the invites whose expiration
\* is before t go, the sessions and the log rows more than 30 days older
\* than t go, every other row stays.
SweepAsClaimed(D, t) ==
    LET KeepInvite(r) == ~(TimeOf(r.expiration) < t)
        KeepSession(r) == ~Stale(r, t)
        KeepLog(r) == ~(TimeOf(r.timestamp) + RetentionDays * TicksPerDay < t)
    IN  [D EXCEPT !.invites = SelectSeq(@, KeepInvite),
                  !.sessions = SelectSeq(@, KeepSession),
                  !.logs = [r \in {x \in DOMAIN @ : KeepLog(x)} |-> @[r]]]

\* C8: one run of clean_database at time t (the server starting, the timer
\* firing, or a run of the timer that falls in a time that passes) removes
\* the invites expired before t and the sessions and log rows more than 30
\* days older than t, and nothing else.
SweepRemovesExactlyTheExpired ==
    [][\/ vars' = vars
       \/ last_clean' /= last_clean => DBNext = SweepAsClaimed(DB, last_clean')
      ]_vars

\* C9: check_password fails closed.  Called for a username that has no row
\* in users, it returns false and does not throw.
CheckPasswordFailsClosed ==
    [][\A u \in Usernames, p \in Passwords :
          (CallCheckPassword(u, p) /\ ~check_username(DB, u))
          => (~ret'.threw /\ ret'.value = FALSE)
      ]_vars

\* C10: delete_session does not throw when the sessions table has no row
\* with the token, and leaves users, sessions and invites as they are.
DeleteSessionOfAbsentTokenReturns ==
    [][\A t \in Tokens :
          (CallDeleteSession(t) /\ SessionRows(DB, t) = <<>>)
          => (~ret'.threw /\ UNCHANGED <<users, sessions, invites>>)
      ]_vars

\* The token resolves to a user whose is_admin flag is set.
ResolvesToAdmin(D, auth_token) ==
    /\ auth_token \in Tokens
    /\ validate(D, auth_token) /= NoString
    /\ \E i \in 1..Len(D.users) :
           /\ D.users[i].username = validate(D, auth_token)
           /\ D.users[i].is_admin = 1

\* The response of the middleware to a token that does not resolve to an
\* admin: 400 for a missing or empty token, 500 for a token the statement
\* cannot bind, 401 for a token with no session, 403 for a user's session.
Refusal(D, auth_token) ==
    IF auth_token = 0 THEN 400
    ELSE IF auth_token = Unbindable THEN 500
    ELSE IF validate(D, auth_token) = NoString THEN 401
    ELSE 403

\* The users and the invites of D are those of the current state.
NothingGated(D) == D.users = users /\ D.invites = invites

AdminNeverDeleted ==
    /\ check_username(DB, admin)
    /\ \A t \in TokenInputs :
           LET O == delete_user_route(DB, t, admin, now)
           IN  /\ O.status /= 200
               /\ O.db = auth(DB, t, now).db
               /\ O.db.users = users
               /\ ResolvesToAdmin(DB, t)
                  => /\ O.status = 403
                     /\ O.message = "Cannot delete admin account."

\* C12, witness: the admin holds a session and has deleted a user; the
\* admin's request to delete 'admin' is answered 403.
AdminDeletionRefused ==
    \E t \in Tokens :
        /\ ResolvesToAdmin(DB, t)
        /\ \E r \in BagToSet(logs) : r.message[1] = "Deleted user"
        /\ delete_user_route(DB, t, admin, now).message
               = "Cannot delete admin account."

\* C13: last_active only moves forward.  Over every step, a session that is
\* in the table before and after it has a last_active that is not earlier
\* than before; and if its last_active differs, the step is a request that
\* passed the auth middleware with the session's token (check_session found
\* the token and refreshed it).
LastActiveMonotone ==
    [][\/ sessions' = sessions
       \/ \A i \in 1..Len(sessions), j \in 1..Len(sessions') :
              sessions[i].auth_token = sessions'[j].auth_token
              => /\ ~TextLess(sessions'[j].last_active, sessions[i].last_active)
                 /\ TimeOf(sessions'[j].last_active)
                        >= TimeOf(sessions[i].last_active)
                 /\ sessions'[j].last_active /= sessions[i].last_active
                    => /\ sessions'[j].last_active = SqlFormat(now)
                       /\ validate(DB, sessions[i].auth_token) /= NoString
                       /\ \/ CreateInviteCode(sessions[i].auth_token)
                          \/ \E u \in UsernameInputs :
                                 DeleteUser(sessions[i].auth_token, u)
      ]_vars

\* C13, witness: a session was used after the day it was created on, and
\* another session, not used since, keeps the time of its creation.
SessionRefreshedLater ==
    \E i, j \in 1..Len(sessions) :
        /\ \E r \in BagToSet(logs) :
               /\ r.message = <<"Created new session", sessions[i].username>>
               /\ TimeOf(r.timestamp) < TimeOf(sessions[i].last_active)
        /\ \A r \in BagToSet(logs) :
               r.message = <<"Created new session", sessions[i].username>>
               => TimeOf(r.timestamp) < TimeOf(sessions[i].last_active)
        /\ TimeOf(sessions[j].last_active) < TimeOf(sessions[i].last_active)

\* C14: an issued invite lives its full 7 days.  A code issued at time T is
\* stored with the expiration T + 7 days, and a run of clean_database at a
\* time before the stored expiration (the server starting, the timer
\* firing, or a run of the timer in a time that passes) leaves the invite:
\* check_invite_code accepts the code after it.
InviteLivesSevenDays ==
    [][\/ vars' = vars
       \/ /\ next_code' /= next_code
             => \A i \in 1..Len(invites') :
                    invites'[i].invite_code = next_code
                    => TimeOf(invites'[i].expiration)
                           = now + InviteDays * TicksPerDay
          /\ last_clean' /= last_clean
             => \A i \in 1..Len(invites) :
                    last_clean' < TimeOf(invites[i].expiration)
                    => check_invite_code(DBNext, invites[i].invite_code)
      ]_vars

\* Statement n of clean_database, run at time t.
Evict(n, D, t) ==
    IF n = 1 THEN EvictInvites(D, toISOString(t))
    ELSE IF n = 2 THEN EvictSessions(D, toISOString(t))
    ELSE EvictLogs(D, toISOString(t))

\* The three evictions give the same tables in every order, and a second
\* sweep at the same time changes nothing.
SweepOrderInsensitive ==
    /\ \A a, b, c \in CleanStatements :
           {a, b, c} = CleanStatements
           => Evict(c, Evict(b, Evict(a, DB, now), now), now)
                  = clean_database(DB, now)
    /\ clean_database(clean_database(DB, now), now) = clean_database(DB, now)

\* C15: the three evictions of a sweep are independent.  When the invite
\* eviction or the session eviction throws, the sweep still performs the
\* other two evictions; and the evictions give the same tables in every
\* order and when the sweep runs twice at one time.
EvictionsIndependent ==
    [][\/ last_clean' = last_clean
       \/ /\ SweepOrderInsensitive
          /\ \A failing \in {1, 2} :
                SweepFails(failing)
                => \A n \in CleanStatements \ {failing} :
                       Evict(n, DBNext, now) = DBNext
      ]_vars

\* C16: session referential integrity.  In every state every row of
\* sessions has the username of a row of users, whatever the order in which
\* create_session, create_user and delete_user run; create_session makes no
\* check of its own: called for a username that has no row, its INSERT is
\* refused and the sessions table stays as it is.
SessionsReferToUsers ==
    /\ \A i \in 1..Len(sessions) : check_username(DB, sessions[i].username)
    /\ \A u \in Usernames :
           ~check_username(DB, u)
           => LET D == create_session(DB, u, next_token, now)
              IN  D.err /\ D.sessions = sessions

\* C16, witness: a user who had a session was deleted, and create_session
\* was then called for a username that has no row: it threw.
SessionForDeletedUserRefused ==
    /\ ret.fn = "create_session"
    /\ ret.threw
    /\ \E u \in Usernames :
           /\ ~check_username(DB, u)
           /\ \E r \in BagToSet(logs) : r.message = <<"Created new session", u>>
           /\ \E r \in BagToSet(logs) : r.message = <<"Deleted user", u>>

\* C17: a session that has been inactive for more than 30 days is unusable.
\* For every row of sessions whose last_active is more than 30 days before
\* the current time, check_session returns null for its token and leaves
\* the row's last_active, whether or not a sweep has run since.
StaleSessionUnusable ==
    \A i \in 1..Len(sessions) :
        Stale(sessions[i], now)
        => /\ validate(DB, sessions[i].auth_token) = NoString
           /\ check_session(DB, sessions[i].auth_token, now) = DB

\* C18: a sign-up that does not succeed changes nothing.  In every state,
\* for every sign-up request that is not answered 200 (400 from one of the
\* checks, or 500 because a statement of create_user or create_session
\* threw), users, sessions and invites after the request are those before
\* it: the presented invite code is still there.
FailedSignUpChangesNothing ==
    \A u \in SignUpUsernameInputs, p \in SignUpPasswordInputs, c \in CodeInputs,
       failing \in {0} \cup SignUpStatements :
        LET O == signup_failing(DB, u, p, c, next_token, now, failing)
        IN  O.status /= 200
            => /\ O.db.users = users
               /\ O.db.sessions = sessions
               /\ O.db.invites = invites

\* C19: bootstrap seeding.  After every start of the server in which
\* open_database returned true, the file has the four tables and the users
\* table has exactly one row of 'admin', with is_admin set: on the first
\* start, on every later start, and on a start that follows a first start
\* which ended after the file was created and before the tables and the
\* row were there.
BootstrapSeedsAdmin ==
    (ret.fn = "open_database" /\ ret.value)
    => /\ database_file.tables = TableCount
       /\ Len(UserRows(DB, admin)) = 1
       /\ UserRows(DB, admin)[1].is_admin = 1

\* The usernames of the rows of users with is_admin set.
Admins(rows) == {rows[i].username : i \in {j \in 1..Len(rows) : rows[j].is_admin = 1}}

\* C20: no privilege escalation.  In every state the users with is_admin
\* set are exactly 'admin'; and over every step a user who is in the table
\* before and after it has the same is_admin, and a user who is new in the
\* table has is_admin 0.
NoPrivilegeEscalation ==
    /\ [](Admins(users) = {admin})
    /\ [][\/ users' = users
          \/ \A j \in 1..Len(users') :
                 LET before == UserRows(DB, users'[j].username)
                 IN  IF before = <<>> THEN users'[j].is_admin = 0
                     ELSE users'[j].is_admin = before[1].is_admin
         ]_vars

\* C20, witness: a user created by a sign-up is in the table, with is_admin
\* 0, next to the admin.
SignedUpUserIsNoAdmin ==
    \E c \in Codes, i \in 1..Len(users) :
        /\ users[i].username \in redeemed_by[c]
        /\ users[i].is_admin = 0
        /\ Admins(users) = {admin}

====
